---- MODULE Spec2Model ----
(***************************************************************************)
(* Model of the dreamberd lexer (src/lexer/mod.rs, src/token.rs).          *)
(*                                                                         *)
(* A text is a sequence of characters; a character is a one-character      *)
(* string, or the code point name of a non-ASCII character ("U+00E9").     *)
(* Rust's String is UTF-8: String::len and the slices input[a..b] count    *)
(* bytes, chars().nth(i) counts characters.  Both views are modelled.      *)
(***************************************************************************)
EXTENDS Integers, Sequences, FiniteSets, TLC

\* ------------------------------------------------------------------ bounds

\* Every text of at most MaxLen characters over Sigma is lexed.
MaxLen == 3

\* ------------------------------------------------------------- characters

\* The characters the bounded texts are drawn from.  The sample texts
\* below also use ( ) { } ; 2, further letters, U+20AC and U+00A0.
Sigma ==
    {" ", "\n", "\"", "!", "?", "=", ">", ",", "1", "x", "f", "#", "U+00E9"}

\* char::len_utf8: U+00E9 (e acute) and U+00A0 (no-break space) take two
\* bytes, U+20AC (euro sign) three, every ASCII character one.
Utf8Len(c) ==
    CASE c = "U+00E9" -> 2
      [] c = "U+00A0" -> 2
      [] c = "U+20AC" -> 3
      [] OTHER -> 1

\* char::is_whitespace
IsWhitespace(c) == c \in {" ", "\n", "U+00A0"}

\* char::is_numeric
IsNumeric(c) == c \in {"1", "2"}

\* char::is_alphabetic
IsAlphabetic(c) ==
    c \in {"a", "b", "c", "d", "e", "f", "g", "h", "i", "l", "m", "n", "o",
           "r", "s", "t", "u", "x", "y", "B", "C", "D", "I", "S", "T",
           "U+00E9"}

\* char::is_alphanumeric
IsAlphanumeric(c) == IsAlphabetic(c) \/ IsNumeric(c)

\* ------------------------------------------------------------ UTF-8 view

RECURSIVE ByteLen(_)
\* String::len: the length in bytes.
ByteLen(s) == IF s = <<>> THEN 0 ELSE Utf8Len(Head(s)) + ByteLen(Tail(s))

\* The byte offset at which character number k+1 starts.
ByteOff(s, k) == ByteLen(SubSeq(s, 1, k))

\* str::is_char_boundary
IsCharBoundary(s, b) == \E k \in 0..Len(s) : ByteOff(s, k) = b

\* The number of characters that lie before the character boundary b.
CharsBefore(s, b) == CHOOSE k \in 0..Len(s) : ByteOff(s, k) = b

\* ------------------------------------------------------------------- u32

\* A u32 is held as two 16-bit limbs, value = hi * Limb + lo.
Limb == 65536

U32(n) == [hi |-> n \div Limb, lo |-> n % Limb]

\* u32::MAX
U32Max == [hi |-> Limb - 1, lo |-> Limb - 1]

ToNat(v) == v.hi * Limb + v.lo

GtU32(a, b) == a.hi > b.hi \/ (a.hi = b.hi /\ a.lo > b.lo)

LtU32(a, b) == GtU32(b, a)

\* a + b modulo 2^32, and whether the true sum exceeded u32::MAX.
AddU32(a, b) ==
    LET lo == a.lo + b.lo
        hi == a.hi + b.hi + (lo \div Limb)
    IN  [val |-> [hi |-> hi % Limb, lo |-> lo % Limb], carry |-> hi >= Limb]

\* ---------------------------------------------------------------- Input

None == "None"

\* Input::peek: chars().nth(cursor), a character index.
Peek(inp, cur) == IF cur < Len(inp) THEN inp[cur + 1] ELSE None

\* Input::has_remaining_input: cursor < input.len(), a byte length.
HasRemainingInput(inp, cur) == cur < ByteLen(inp)

\* Input::remaining_length
RemainingLength(inp, cur) == ByteLen(inp) - cur

\* Input::remaining_input: input[cursor..] is a byte slice; it panics when
\* cursor is past the end or inside a character.
RemainingInput(inp, cur) ==
    IF ~IsCharBoundary(inp, cur)
    THEN [abort |-> TRUE, str |-> <<>>]
    ELSE [abort |-> FALSE,
          str |-> SubSeq(inp, CharsBefore(inp, cur) + 1, Len(inp))]

\* Input::peek_string_chars: remaining[0..chars] is a byte slice too.
PeekStringChars(inp, cur, chars) ==
    LET remaining == RemainingInput(inp, cur)
    IN  IF remaining.abort THEN [abort |-> TRUE, str |-> <<>>]
        ELSE IF GtU32(chars, U32(ByteLen(remaining.str)))
        THEN [abort |-> FALSE, str |-> <<>>]
        ELSE IF ~IsCharBoundary(remaining.str, ToNat(chars))
        THEN [abort |-> TRUE, str |-> <<>>]
        ELSE [abort |-> FALSE,
              str |-> SubSeq(remaining.str, 1,
                             CharsBefore(remaining.str, ToNat(chars)))]

\* Input::move_cursor.  cursor + chars is a u32 sum: when it exceeds
\* u32::MAX a build with overflow checks panics and a build without them
\* wraps (checks tells which build runs).
MoveCursor(inp, cur, chars, checks) ==
    LET sum == AddU32(U32(cur), chars)
    IN  IF sum.carry /\ checks THEN [abort |-> TRUE, cursor |-> cur]
        ELSE IF GtU32(sum.val, U32(ByteLen(inp)))
        THEN [abort |-> FALSE, cursor |-> cur]
        ELSE [abort |-> FALSE, cursor |-> ToNat(sum.val)]

\* Input::read
Read(inp, cur, chars, checks) ==
    LET read_string == PeekStringChars(inp, cur, chars)
        moved == MoveCursor(inp, cur, chars, checks)
    IN  IF read_string.abort \/ moved.abort
        THEN [abort |-> TRUE, str |-> <<>>, cursor |-> cur]
        ELSE [abort |-> FALSE, str |-> read_string.str,
              cursor |-> moved.cursor]

RECURSIVE SkipLoop(_, _, _, _, _)
\* The while loop of Input::skip_whitespace, i iterations done.
SkipLoop(inp, cur, max_spaces, i, checks) ==
    IF  /\ LtU32(U32(i), max_spaces)
        /\ HasRemainingInput(inp, cur)
        /\ Peek(inp, cur) # None
        /\ IsWhitespace(Peek(inp, cur))
    THEN LET r == Read(inp, cur, U32(1), checks)
         IN  IF r.abort THEN [abort |-> TRUE, cursor |-> cur]
             ELSE SkipLoop(inp, r.cursor, max_spaces, i + 1, checks)
    ELSE [abort |-> FALSE, cursor |-> cur]

\* Input::skip_whitespace
SkipWhitespace(inp, cur, max_spaces, preserve_single, checks) ==
    IF preserve_single /\ RemainingLength(inp, cur) = 1 /\ Peek(inp, cur) = " "
    THEN [abort |-> FALSE, cursor |-> cur]
    ELSE SkipLoop(inp, cur, max_spaces, 0, checks)

RECURSIVE LocationAfterSameLine(_, _, _)
\* A plausible slip: a newline resets the column and leaves the line.
LocationAfterSameLine(s, line, col) ==
    IF s = <<>> THEN [line |-> line, col |-> col]
    ELSE IF Head(s) = "\n" THEN LocationAfterSameLine(Tail(s), line, 1)
    ELSE LocationAfterSameLine(Tail(s), line, col + 1)

RECURSIVE LocationAfter(_, _, _)
\* The for loop of Input::current_location over the characters of s.
LocationAfter(s, line, col) ==
    IF s = <<>> THEN [line |-> line, col |-> col]
    ELSE IF Head(s) = "\n" THEN LocationAfter(Tail(s), line + 1, 1)
    ELSE LocationAfter(Tail(s), line, col + 1)

NoLocation == [line |-> 0, col |-> 0]

\* Input::current_location: input[..cursor] is a byte slice.
CurrentLocation(inp, cur) ==
    IF ~IsCharBoundary(inp, cur)
    THEN [abort |-> TRUE, location |-> NoLocation]
    ELSE [abort |-> FALSE,
          location |-> LocationAfter(SubSeq(inp, 1, CharsBefore(inp, cur)),
                                     1, 1)]

\* ---------------------------------------------------------------- tokens

\* TokenType of the token a one-character branch of lex emits.
SingleCharType(c) ==
    CASE c = "," -> "Comma"
      [] c = "(" -> "Lparen"
      [] c = ")" -> "Rparen"
      [] c = "{" -> "Lbrace"
      [] c = "}" -> "Rbrace"
      [] c = ";" -> "Not"

\* A plausible slip: a prefix test in place of the list of spellings.
ClassifyByFirstLetters(ident) ==
    CASE Head(ident) = "f" /\ (Len(ident) = 1 \/ ident[2] = "u")
           -> "FunctionDeclaration"
      [] ident \in {<<"I", "n", "t">>, <<"S", "t", "r", "i", "n", "g">>,
                    <<"C", "h", "a", "r">>, <<"D", "i", "g", "i", "t">>,
                    <<"B", "o", "o", "l">>}
           -> "Primitive"
      [] ident \in {<<"t", "r", "u", "e">>, <<"f", "a", "l", "s", "e">>,
                    <<"m", "a", "y", "b", "e">>}
           -> "BoolLiteral"
      [] ident = <<"r", "e", "t", "u", "r", "n">> -> "Return"
      [] OTHER -> "Identifier"

\* The match of Lexer::lex_identifier on the text of the run.
Classify(ident) ==
    CASE ident \in {<<"f">>, <<"f", "u">>, <<"f", "u", "n">>,
                    <<"f", "u", "n", "c">>, <<"f", "u", "n", "c", "t">>,
                    <<"f", "u", "n", "c", "t", "i">>,
                    <<"f", "u", "n", "c", "t", "i", "o">>,
                    <<"f", "u", "n", "c", "t", "i", "o", "n">>}
           -> "FunctionDeclaration"
      [] ident \in {<<"I", "n", "t">>, <<"S", "t", "r", "i", "n", "g">>,
                    <<"C", "h", "a", "r">>, <<"D", "i", "g", "i", "t">>,
                    <<"B", "o", "o", "l">>}
           -> "Primitive"
      [] ident \in {<<"t", "r", "u", "e">>, <<"f", "a", "l", "s", "e">>,
                    <<"m", "a", "y", "b", "e">>}
           -> "BoolLiteral"
      [] ident = <<"r", "e", "t", "u", "r", "n">> -> "Return"
      [] OTHER -> "Identifier"

\* The arm of the match in Lexer::lex that the character c selects.
Branch(c) ==
    CASE c = " " -> "space"
      [] c = "\"" -> "string"
      [] c \in {",", "(", ")", "{", "}", ";"} -> "single"
      [] c = "!" -> "strict"
      [] c = "?" -> "debug"
      [] c = "=" -> "equals"
      [] OTHER -> "other"

\* ------------------------------------------------------------ the texts

\* The words whose classification the specification names.
Words ==
    {<<"f">>, <<"f", "u">>, <<"f", "u", "n">>, <<"f", "u", "n", "c">>,
     <<"f", "u", "n", "c", "t">>, <<"f", "u", "n", "c", "t", "i">>,
     <<"f", "u", "n", "c", "t", "i", "o">>,
     <<"f", "u", "n", "c", "t", "i", "o", "n">>,
     <<"f", "u", "n", "c", "t", "i", "o", "n", "s">>,
     <<"I", "n", "t">>, <<"S", "t", "r", "i", "n", "g">>,
     <<"C", "h", "a", "r">>, <<"D", "i", "g", "i", "t">>,
     <<"B", "o", "o", "l">>, <<"t", "r", "u", "e">>,
     <<"f", "a", "l", "s", "e">>, <<"m", "a", "y", "b", "e">>,
     <<"r", "e", "t", "u", "r", "n">>, <<"g">>, <<"f", "x">>,
     <<"T", "r", "u", "e">>}

\* fun greet(name) => { return name } !
GreetText ==
    <<"f", "u", "n", " ", "g", "r", "e", "e", "t", "(", "n", "a", "m", "e",
      ")", " ", "=", ">", " ", "{", " ", "r", "e", "t", "u", "r", "n", " ",
      "n", "a", "m", "e", " ", "}", " ", "!">>

\* x = 1
UnterminatedText == <<"x", " ", "=", " ", "1">>

\* The sample texts, longer than MaxLen: the examples of the
\* specification, every word followed by the strict marker, every
\* one-character token, and texts with a non-ASCII character.
Samples ==
    {GreetText, UnterminatedText,
     <<"\"", "a", "\"", "\"", "b", "\"", "!">>,
     <<"\"", "a", "\"", "\"", "b", "\"">>,
     <<"\"", "a", "\"", "!">>,
     <<"(", " ", ")", " ", "{", " ", "}", " ", ";", " ", ",", " ", "?">>,
     <<"1", "2", ",", "!">>,
     <<"x", "U+00A0", "!">>,
     <<"?", "\n", "U+20AC">>,
     <<"#", " ", "U+20AC">>,
     <<"\"", "a", "U+00E9", "\"", "!">>,
     <<"x", "!", " ", "\n", "!", "\n", "U+00E9">>}
    \cup {w \o <<"!">> : w \in Words}

\* Every text of at most n characters over the alphabet A.
TextsOver(A, n) == UNION {[1..k -> A] : k \in 0..n}

Texts == TextsOver(Sigma, MaxLen) \cup Samples

\* ---------------------------------------------------------------- state

VARIABLES
    input,            \* Input::input, the text
    cursor,           \* Input::cursor
    overflow_checks,  \* whether the build panics on integer overflow
    tokens,           \* Lexer::tokens
    pc,               \* the point Lexer::lex has reached
    current,          \* the local `current` of Lexer::lex
    buf,              \* the local text being built (str, eol, number, ident)
    result,           \* what lex returned, or that it panicked
    dispatched,       \* history: the cursor at each dispatch of the match
    spans,            \* history: per token, the cursor at dispatch and at add
    call,             \* history: the last call made on a bare Input
    left              \* history: how the scan loop of lex was left

vars ==
    <<input, cursor, overflow_checks, tokens, pc, current, buf, result,
      dispatched, spans, call, left>>

NoResult == [kind |-> "none", location |-> NoLocation]

AbortResult == [kind |-> "abort", location |-> NoLocation]

NoCall == [op |-> "none", chars |-> U32(0), before |-> 0, str |-> <<>>]

\* Lexer::new(Input::of(text)) for a text of the bounded set.
Init ==
    /\ input \in Texts
    /\ cursor = 0
    /\ overflow_checks \in BOOLEAN
    /\ tokens = <<>>
    /\ pc = "loop"
    /\ current = None
    /\ buf = <<>>
    /\ result = NoResult
    /\ dispatched = <<>>
    /\ spans = <<>>
    /\ call = NoCall
    /\ left = "no"

\* A panic: the call unwinds, nothing is returned.
Panic ==
    /\ pc' = "done"
    /\ result' = AbortResult
    /\ UNCHANGED <<input, cursor, overflow_checks, tokens, current, buf,
                   dispatched, spans, call, left>>

\* return Err(kind(location))
Fail(kind, cur) ==
    LET loc == CurrentLocation(input, cur)
    IN  IF loc.abort THEN Panic
        ELSE /\ pc' = "done"
             /\ result' = [kind |-> kind, location |-> loc.location]
             /\ cursor' = cur
             /\ UNCHANGED <<input, overflow_checks, tokens, current, buf,
                            dispatched, spans, call, left>>

\* Lexer::add_token with the cursor at cur, then control goes to next
\* with the cursor at after.
AddToken(ty, value, cur, after, next) ==
    LET loc == CurrentLocation(input, cur)
    IN  IF loc.abort THEN Panic
        ELSE /\ tokens' = Append(tokens, [ty |-> ty, value |-> value,
                                          location |-> loc.location])
             /\ spans' = Append(spans, [from |-> dispatched[Len(dispatched)],
                                        to |-> cur])
             /\ cursor' = after
             /\ pc' = next
             /\ left' = IF next = "check" THEN "marker" ELSE left
             /\ UNCHANGED <<input, overflow_checks, current, buf, result,
                            dispatched, call>>

\* ------------------------------------------------------------ Lexer::lex

\* Control moves to next with the cursor at cur; nothing else changes.
Goto(next, cur) ==
    /\ pc' = next
    /\ cursor' = cur
    /\ UNCHANGED <<input, overflow_checks, tokens, current, buf, result,
                   dispatched, spans, call, left>>

\* The scan loop is left (its condition is false, or a break is taken).
Leave(how) ==
    /\ pc' = "check"
    /\ left' = how
    /\ UNCHANGED <<input, cursor, overflow_checks, tokens, current, buf,
                   result, dispatched, spans, call>>

\* `self.input.cursor -= 1` followed by a use of the cursor.  At cursor 0
\* a build with overflow checks panics at the subtraction; a build without
\* them wraps to u32::MAX and panics at the next slice of the text, which
\* every caller takes at once.
CanRetract(cur) == cur > 0

\* while self.input.has_remaining_input()
LoopTest ==
    /\ pc = "loop"
    /\ IF HasRemainingInput(input, cursor)
       THEN Goto("skip", cursor)
       ELSE Leave("exhausted")

\* self.input.skip_whitespace(u32::MAX, true)
SkipLeading ==
    /\ pc = "skip"
    /\ LET r == SkipWhitespace(input, cursor, U32Max, TRUE, overflow_checks)
       IN  IF r.abort THEN Panic ELSE Goto("peek", r.cursor)

\* let Some(current) = self.input.peek() else { break }; match current
Dispatch ==
    /\ pc = "peek"
    /\ IF Peek(input, cursor) = None
       THEN Leave("break")
       ELSE /\ current' = Peek(input, cursor)
            /\ dispatched' = Append(dispatched, cursor)
            /\ pc' = Branch(Peek(input, cursor))
            /\ UNCHANGED <<input, cursor, overflow_checks, tokens, buf,
                           result, spans, call, left>>

\* ' ' => {}
BranchSpace ==
    /\ pc = "space"
    /\ Goto("advance", cursor)

\* '"': the opening quote is read, str is empty
BranchString ==
    /\ pc = "string"
    /\ LET r == Read(input, cursor, U32(1), overflow_checks)
       IN  IF r.abort THEN Panic
           ELSE /\ buf' = <<>>
                /\ cursor' = r.cursor
                /\ pc' = "string_body"
                /\ UNCHANGED <<input, overflow_checks, tokens, current,
                               result, dispatched, spans, call, left>>

\* One iteration of the while loop of the string branch.
StringBody ==
    /\ pc = "string_body"
    /\ HasRemainingInput(input, cursor)
    /\ Peek(input, cursor) # "\""
    /\ LET r == Read(input, cursor, U32(1), overflow_checks)
       IN  IF Peek(input, cursor) = None \/ r.abort THEN Panic
           ELSE /\ buf' = buf \o r.str
                /\ cursor' = r.cursor
                /\ UNCHANGED <<input, overflow_checks, tokens, pc, current,
                               result, dispatched, spans, call, left>>

\* A plausible slip: the string branch reads the closing quote itself.
StringEndReadsQuote ==
    /\ pc = "string_body"
    /\ ~(HasRemainingInput(input, cursor) /\ Peek(input, cursor) # "\"")
    /\ IF ~HasRemainingInput(input, cursor)
       THEN Fail("UnterminatedString", cursor)
       ELSE AddToken("StringLiteral", buf, cursor, cursor + 1, "advance")

\* The string loop has ended: UnterminatedString or a StringLiteral.
StringEnd ==
    /\ pc = "string_body"
    /\ ~(HasRemainingInput(input, cursor) /\ Peek(input, cursor) # "\"")
    /\ IF ~HasRemainingInput(input, cursor)
       THEN Fail("UnterminatedString", cursor)
       ELSE AddToken("StringLiteral", buf, cursor, cursor, "advance")

\* ',', '(', ')', '{', '}', ';'
BranchSingle ==
    /\ pc = "single"
    /\ AddToken(SingleCharType(current), <<current>>, cursor, cursor,
                "advance")

\* '!': the marker is read and the whitespace after it skipped
BranchStrict ==
    /\ pc = "strict"
    /\ LET r == Read(input, cursor, U32(1), overflow_checks)
           w == SkipWhitespace(input, r.cursor, U32Max, FALSE,
                               overflow_checks)
       IN  IF r.abort \/ w.abort THEN Panic
           ELSE /\ buf' = r.str
                /\ cursor' = w.cursor
                /\ pc' = "strict_loop"
                /\ UNCHANGED <<input, overflow_checks, tokens, current,
                               result, dispatched, spans, call, left>>

\* A plausible slip: the cursor is not put back on the offending character.
StrictLoopNoRetraction ==
    /\ pc = "strict_loop"
    /\ HasRemainingInput(input, cursor)
    /\ LET r == Read(input, cursor, U32(1), overflow_checks)
       IN  IF r.abort THEN Panic
           ELSE IF r.str # <<"!">> /\ r.str # <<"\n">>
           THEN Fail("DeadCode", r.cursor)
           ELSE /\ buf' = buf \o r.str
                /\ cursor' = r.cursor
                /\ UNCHANGED <<input, overflow_checks, tokens, pc, current,
                               result, dispatched, spans, call, left>>

\* One iteration of the while loop of the '!' branch.
StrictLoop ==
    /\ pc = "strict_loop"
    /\ HasRemainingInput(input, cursor)
    /\ LET r == Read(input, cursor, U32(1), overflow_checks)
       IN  IF r.abort THEN Panic
           ELSE IF r.str # <<"!">> /\ r.str # <<"\n">>
           THEN IF CanRetract(r.cursor)
                THEN Fail("DeadCode", r.cursor - 1)
                ELSE Panic
           ELSE /\ buf' = buf \o r.str
                /\ cursor' = r.cursor
                /\ UNCHANGED <<input, overflow_checks, tokens, pc, current,
                               result, dispatched, spans, call, left>>

\* A plausible slip: the break after the Eol token left out.
StrictEndNoBreak ==
    /\ pc = "strict_loop"
    /\ ~HasRemainingInput(input, cursor)
    /\ AddToken("Eol", buf, cursor, cursor, "advance")

\* The '!' loop has ended: Eol is added and the scan loop left.
StrictEnd ==
    /\ pc = "strict_loop"
    /\ ~HasRemainingInput(input, cursor)
    /\ AddToken("Eol", buf, cursor, cursor, "check")

\* '?'
BranchDebug ==
    /\ pc = "debug"
    /\ LET eol_debug == Read(input, cursor, U32(1), overflow_checks)
           w == SkipWhitespace(input, eol_debug.cursor, U32Max, FALSE,
                               overflow_checks)
           r == Read(input, w.cursor, U32(1), overflow_checks)
       IN  IF eol_debug.abort \/ w.abort THEN Panic
           ELSE IF ~HasRemainingInput(input, w.cursor)
           THEN AddToken("EolDebug", eol_debug.str, w.cursor, w.cursor,
                         "check")
           ELSE IF r.abort THEN Panic
           ELSE IF r.str # <<"\n">>
           THEN IF CanRetract(r.cursor)
                THEN Fail("DeadCode", r.cursor - 1)
                ELSE Panic
           ELSE AddToken("EolDebug", eol_debug.str, r.cursor, r.cursor,
                         "check")

\* '=': the peek is taken with the cursor still on the '='
BranchEquals ==
    /\ pc = "equals"
    /\ IF Peek(input, cursor) = ">"
       THEN LET r == Read(input, cursor, U32(1), overflow_checks)
            IN  IF r.abort THEN Panic
                ELSE AddToken("Arrow", <<"=", ">">>, r.cursor, r.cursor,
                              "advance")
       ELSE AddToken("Equals", <<"=">>, cursor, cursor, "advance")

\* _ => { if current.is_numeric() {..} if current.is_alphabetic() {..} }
BranchOther ==
    /\ pc = "other"
    /\ IF IsNumeric(current)
       THEN /\ buf' = <<>>
            /\ pc' = "number"
            /\ UNCHANGED <<input, cursor, overflow_checks, tokens, current,
                           result, dispatched, spans, call, left>>
       ELSE IF IsAlphabetic(current)
       THEN Goto("ident", cursor)
       ELSE Goto("advance", cursor)

\* One iteration of the while loop of the digit branch.
NumberLoop ==
    /\ pc = "number"
    /\ HasRemainingInput(input, cursor)
    /\ Peek(input, cursor) = None \/ IsNumeric(Peek(input, cursor))
    /\ LET r == Read(input, cursor, U32(1), overflow_checks)
       IN  IF Peek(input, cursor) = None \/ r.abort THEN Panic
           ELSE /\ buf' = buf \o r.str
                /\ cursor' = r.cursor
                /\ UNCHANGED <<input, overflow_checks, tokens, pc, current,
                               result, dispatched, spans, call, left>>

\* The digit loop has ended: IntLiteral is added; the second if follows.
NumberEnd ==
    /\ pc = "number"
    /\ ~(/\ HasRemainingInput(input, cursor)
         /\ Peek(input, cursor) = None \/ IsNumeric(Peek(input, cursor)))
    /\ AddToken("IntLiteral", buf, cursor, cursor,
                IF IsAlphabetic(current) THEN "ident" ELSE "advance")

\* Lexer::lex_identifier: let mut ident = self.input.read(1)
IdentStart ==
    /\ pc = "ident"
    /\ LET r == Read(input, cursor, U32(1), overflow_checks)
       IN  IF r.abort THEN Panic
           ELSE /\ buf' = r.str
                /\ cursor' = r.cursor
                /\ pc' = "ident_loop"
                /\ UNCHANGED <<input, overflow_checks, tokens, current,
                               result, dispatched, spans, call, left>>

\* One iteration of the while loop of lex_identifier.
IdentLoop ==
    /\ pc = "ident_loop"
    /\ HasRemainingInput(input, cursor)
    /\ Peek(input, cursor) = None \/ IsAlphanumeric(Peek(input, cursor))
    /\ LET r == Read(input, cursor, U32(1), overflow_checks)
       IN  IF Peek(input, cursor) = None \/ r.abort THEN Panic
           ELSE /\ buf' = buf \o r.str
                /\ cursor' = r.cursor
                /\ UNCHANGED <<input, overflow_checks, tokens, pc, current,
                               result, dispatched, spans, call, left>>

\* A plausible slip: the retraction at the end of lex_identifier left out.
IdentEndNoRetraction ==
    /\ pc = "ident_loop"
    /\ ~(/\ HasRemainingInput(input, cursor)
         /\ Peek(input, cursor) = None \/ IsAlphanumeric(Peek(input, cursor)))
    /\ AddToken(Classify(buf), buf, cursor, cursor, "advance")

\* The identifier loop has ended: the run is classified, its token added
\* and the cursor retracted by one.
IdentEnd ==
    /\ pc = "ident_loop"
    /\ ~(/\ HasRemainingInput(input, cursor)
         /\ Peek(input, cursor) = None \/ IsAlphanumeric(Peek(input, cursor)))
    /\ IF CanRetract(cursor)
       THEN AddToken(Classify(buf), buf, cursor, cursor - 1, "advance")
       ELSE Panic

\* self.input.read(1) at the end of the loop body
Advance ==
    /\ pc = "advance"
    /\ LET r == Read(input, cursor, U32(1), overflow_checks)
       IN  IF r.abort THEN Panic ELSE Goto("loop", r.cursor)

\* Whether the token is an end-of-line marker.
IsTerminator(token) == token.ty = "Eol" \/ token.ty = "EolDebug"

\* A plausible slip: the check for a missing marker left out.
TerminationCheckOmitted ==
    /\ pc = "check"
    /\ pc' = "done"
    /\ result' = [kind |-> "Ok", location |-> NoLocation]
    /\ UNCHANGED <<input, cursor, overflow_checks, tokens, current, buf,
                   dispatched, spans, call, left>>

\* A plausible slip: UnterminatedLine carries the last token's location.
TerminationCheckAtLastToken ==
    /\ pc = "check"
    /\ pc' = "done"
    /\ result' = IF tokens # <<>> /\ ~IsTerminator(tokens[Len(tokens)])
                 THEN [kind |-> "UnterminatedLine",
                       location |-> tokens[Len(tokens)].location]
                 ELSE [kind |-> "Ok", location |-> NoLocation]
    /\ UNCHANGED <<input, cursor, overflow_checks, tokens, current, buf,
                   dispatched, spans, call, left>>

\* The check after the loop, and the return.
TerminationCheck ==
    /\ pc = "check"
    /\ IF tokens # <<>> /\ ~IsTerminator(tokens[Len(tokens)])
       THEN Fail("UnterminatedLine", cursor)
       ELSE /\ pc' = "done"
            /\ result' = [kind |-> "Ok", location |-> NoLocation]
            /\ UNCHANGED <<input, cursor, overflow_checks, tokens, current,
                           buf, dispatched, spans, call, left>>

Next ==
    \/ LoopTest
    \/ SkipLeading
    \/ Dispatch
    \/ BranchSpace
    \/ BranchString
    \/ StringBody
    \/ StringEnd
    \/ BranchSingle
    \/ BranchStrict
    \/ StrictLoop
    \/ StrictEnd
    \/ BranchDebug
    \/ BranchEquals
    \/ BranchOther
    \/ NumberLoop
    \/ NumberEnd
    \/ IdentStart
    \/ IdentLoop
    \/ IdentEnd
    \/ Advance
    \/ TerminationCheck

Spec == Init /\ [][Next]_vars

\* ------------------------------------------------- Input used on its own

\* The largest request size tried from either end of the u32 range.
MaxReq == 2

\* The request sizes: 0..MaxReq and u32::MAX - MaxReq..u32::MAX.
Requests ==
    {U32(n) : n \in 0..MaxReq}
        \cup {[hi |-> Limb - 1, lo |-> Limb - 1 - n] : n \in 0..MaxReq}

\* The characters of the texts a bare Input is built on.
InputSigma == {" ", "x", "U+00E9"}

\* Input::of(text)
InputInit ==
    /\ input \in TextsOver(InputSigma, MaxLen)
    /\ cursor = 0
    /\ overflow_checks \in BOOLEAN
    /\ tokens = <<>>
    /\ pc = "input"
    /\ current = None
    /\ buf = <<>>
    /\ result = NoResult
    /\ dispatched = <<>>
    /\ spans = <<>>
    /\ call = NoCall
    /\ left = "no"

\* The outcome r of a call on the Input: the cursor it leaves, or a panic.
Called(op, chars, r, str) ==
    /\ call' = [op |-> op, chars |-> chars, before |-> cursor, str |-> str]
    /\ cursor' = r.cursor
    /\ result' = IF r.abort THEN AbortResult ELSE NoResult
    /\ UNCHANGED <<input, overflow_checks, tokens, pc, current, buf,
                   dispatched, spans, left>>

\* input.move_cursor(chars)
CallMoveCursor ==
    /\ result = NoResult
    /\ \E chars \in Requests :
           Called("move_cursor", chars,
                  MoveCursor(input, cursor, chars, overflow_checks), <<>>)

\* input.read(chars)
CallRead ==
    /\ result = NoResult
    /\ \E chars \in Requests :
           LET r == Read(input, cursor, chars, overflow_checks)
           IN  Called("read", chars, r, r.str)

\* input.skip_whitespace(max_spaces, preserve_single)
CallSkipWhitespace ==
    /\ result = NoResult
    /\ \E max_spaces \in Requests, preserve_single \in BOOLEAN :
           Called("skip_whitespace", max_spaces,
                  SkipWhitespace(input, cursor, max_spaces, preserve_single,
                                 overflow_checks), <<>>)

InputNext ==
    \/ CallMoveCursor
    \/ CallRead
    \/ CallSkipWhitespace

InputSpec == InputInit /\ [][InputNext]_vars

\* ------------------------------------------------------------ properties

Returned == pc = "done" /\ result.kind # "abort"

LastToken == tokens[Len(tokens)]

\* The cursor at the last dispatch of the match.
LastDispatch == dispatched[Len(dispatched)]

\* The character at character offset p of the text.
CharAt(p) == input[p + 1]

\* The text that follows character offset p.
TextAfter(p) == SubSeq(input, p + 2, Len(input))

RECURSIVE StripWhitespace(_)
\* s without the whitespace run it starts with.
StripWhitespace(s) ==
    IF s # <<>> /\ IsWhitespace(Head(s)) THEN StripWhitespace(Tail(s)) ELSE s

\* The line and column of the end of the text.
EndLocation == LocationAfter(input, 1, 1)

\* C1: whenever lex returns Ok, the token sequence is empty or its last
\* token is Eol or EolDebug.
C1_OkEndsWithMarker ==
    result.kind = "Ok" =>
        tokens = <<>> \/ LastToken.ty \in {"Eol", "EolDebug"}

C1_Witness ==
    /\ result.kind = "Ok"
    /\ Len(tokens) > 1
    /\ LastToken.ty = "EolDebug"

\* C2: when '?' is dispatched and a newline follows it, lex succeeds with
\* a final EolDebug token whatever text follows the newline.  Stated for
\* the runs that return; a run that panics is the matter of C9.
C2_DebugNewlineSucceeds ==
    (/\ Returned
     /\ dispatched # <<>>
     /\ CharAt(LastDispatch) = "?"
     /\ TextAfter(LastDispatch) # <<>>
     /\ Head(TextAfter(LastDispatch)) = "\n")
        => /\ result.kind = "Ok"
           /\ LastToken.ty = "EolDebug"

\* C3: when '!' is dispatched, lex succeeds with a final Eol token and the
\* cursor at the end of the text if, after the whitespace run that follows
\* the '!', every character is '!' or newline, and fails with DeadCode if
\* not.
C3_StrictMarkerOutcome ==
    (/\ pc = "done"
     /\ dispatched # <<>>
     /\ CharAt(LastDispatch) = "!")
        => LET rest == StripWhitespace(TextAfter(LastDispatch))
           IN  IF \A i \in 1..Len(rest) : rest[i] \in {"!", "\n"}
               THEN /\ result.kind = "Ok"
                    /\ LastToken.ty = "Eol"
                    /\ ~HasRemainingInput(input, cursor)
               ELSE result.kind = "DeadCode"

\* C3 on the texts that hold ASCII characters only.
C3_OnAsciiText ==
    (\A i \in 1..Len(input) : Utf8Len(input[i]) = 1) => C3_StrictMarkerOutcome

\* Whether the arm of the dispatch number i has run to its end.
BranchDone(i) == i < Len(dispatched) \/ pc \notin {"equals", "peek"}

\* The tokens added by the dispatch at character offset p.
TokensFrom(p) == {i \in 1..Len(tokens) : spans[i].from = p}

\* C4: a dispatched '=' followed by '>' adds exactly one token, Arrow with
\* text "=>", consuming both characters, and the '>' adds none; a
\* dispatched '=' not followed by '>' adds one Equals token.
C4_ArrowOnEqualsGreater ==
    \A i \in 1..Len(dispatched) :
        LET p == dispatched[i]
        IN  (CharAt(p) = "=" /\ BranchDone(i)) =>
                /\ Cardinality(TokensFrom(p)) = 1
                /\ LET k == CHOOSE k \in TokensFrom(p) : TRUE
                   IN  IF TextAfter(p) # <<>> /\ Head(TextAfter(p)) = ">"
                       THEN /\ tokens[k].ty = "Arrow"
                            /\ tokens[k].value = <<"=", ">">>
                            /\ spans[k].to = p + 2
                            /\ TokensFrom(p + 1) = {}
                       ELSE /\ tokens[k].ty = "Equals"
                            /\ tokens[k].value = <<"=">>

\* The kinds of the tokens, in order.
Kinds == [i \in 1..Len(tokens) |-> tokens[i].ty]

\* C5: `fun greet(name) => { return name } !` lexes to FunctionDeclaration,
\* Identifier(greet), Lparen, Identifier(name), Rparen, Arrow, Lbrace,
\* Return, Identifier(name), Rbrace, Eol.
C5_GreetTokens ==
    (pc = "done" /\ input = GreetText) =>
        /\ result.kind = "Ok"
        /\ Kinds = <<"FunctionDeclaration", "Identifier", "Lparen",
                     "Identifier", "Rparen", "Arrow", "Lbrace", "Return",
                     "Identifier", "Rbrace", "Eol">>
        /\ tokens[2].value = <<"g", "r", "e", "e", "t">>
        /\ tokens[4].value = <<"n", "a", "m", "e">>
        /\ tokens[9].value = <<"n", "a", "m", "e">>

\* C6: when '"' is dispatched and no '"' follows it in the text, lex fails
\* with UnterminatedString at the location of the end of the text.
C6_UnterminatedStringAtEnd ==
    (/\ pc = "done"
     /\ dispatched # <<>>
     /\ CharAt(LastDispatch) = "\""
     /\ \A j \in 1..Len(TextAfter(LastDispatch)) :
            TextAfter(LastDispatch)[j] # "\"")
        => /\ result.kind = "UnterminatedString"
           /\ result.location = EndLocation

\* C6 on the texts that hold ASCII characters only.
C6_OnAsciiText ==
    (\A i \in 1..Len(input) : Utf8Len(input[i]) = 1)
        => C6_UnterminatedStringAtEnd

\* C7: when the scan loop ends by exhausting the text, no marker having
\* been dispatched, and a token was added, lex fails with UnterminatedLine
\* at the location of the cursor; `x = 1` fails so, at line 1 column 6.
C7_ExhaustedIsUnterminatedLine ==
    (pc = "done" /\ left \in {"exhausted", "break"} /\ tokens # <<>>) =>
        /\ result.kind = "UnterminatedLine"
        /\ result.location = LocationAfter(SubSeq(input, 1, cursor), 1, 1)
        /\ input = UnterminatedText =>
               result.location = [line |-> 1, col |-> 6]

C7_Witness ==
    /\ pc = "done"
    /\ left = "exhausted"
    /\ input = UnterminatedText
    /\ Len(tokens) = 3
    /\ result.kind = "UnterminatedLine"

FunctionWord == <<"f", "u", "n", "c", "t", "i", "o", "n">>

\* The kind the whitelist of the specification gives a run.
WhitelistKind(run) ==
    IF \E k \in 1..Len(FunctionWord) : run = SubSeq(FunctionWord, 1, k)
    THEN "FunctionDeclaration"
    ELSE IF run \in {<<"I", "n", "t">>, <<"S", "t", "r", "i", "n", "g">>,
                     <<"C", "h", "a", "r">>, <<"D", "i", "g", "i", "t">>,
                     <<"B", "o", "o", "l">>}
    THEN "Primitive"
    ELSE IF run \in {<<"t", "r", "u", "e">>, <<"f", "a", "l", "s", "e">>,
                     <<"m", "a", "y", "b", "e">>}
    THEN "BoolLiteral"
    ELSE IF run = <<"r", "e", "t", "u", "r", "n">>
    THEN "Return"
    ELSE "Identifier"

IdentifierKinds ==
    {"FunctionDeclaration", "Primitive", "BoolLiteral", "Return",
     "Identifier"}

\* C8: every token of the identifier sub-scanner holds a maximal run (an
\* alphabetic character, then alphanumerics, up to the end of the text or
\* a character that is not alphanumeric), and its kind is the one the
\* whitelist gives that run; g, fx, functions and True are Identifiers.
C8_IdentifierWhitelist ==
    /\ \A i \in 1..Len(tokens) :
           tokens[i].ty \in IdentifierKinds =>
               LET run == SubSeq(input, spans[i].from + 1, spans[i].to)
               IN  /\ tokens[i].value = run
                   /\ run # <<>>
                   /\ IsAlphabetic(run[1])
                   /\ \A j \in 1..Len(run) : IsAlphanumeric(run[j])
                   /\ \/ spans[i].to = Len(input)
                      \/ ~IsAlphanumeric(CharAt(spans[i].to))
                   /\ tokens[i].ty = WhitelistKind(run)
                   /\ run \in {<<"g">>, <<"f", "x">>, <<"T", "r", "u", "e">>,
                               FunctionWord \o <<"s">>}
                          => tokens[i].ty = "Identifier"
    /\ (pc = "done" /\ tokens # <<>> /\ IsAlphabetic(CharAt(spans[1].from)))
           => tokens[1].ty \in IdentifierKinds

C8_Witness ==
    /\ pc = "done"
    /\ Len(tokens) = 2
    /\ tokens[1].ty = "FunctionDeclaration"
    /\ tokens[1].value = SubSeq(FunctionWord, 1, 7)

\* C9: on every text lex returns tokens or one of the three errors and
\* never aborts; has_remaining_input() is true exactly when peek() gives
\* a character.
C9_NeverAborts ==
    /\ result.kind # "abort"
    /\ HasRemainingInput(input, cursor) <=> Peek(input, cursor) # None

\* Whether a move of chars from the cursor at before passes the end.
PastEnd(before, chars) ==
    LET sum == AddU32(U32(before), chars)
    IN  sum.carry \/ GtU32(sum.val, U32(ByteLen(input)))

\* C10: the cursor never exceeds the length of the text, and a
\* move_cursor(n) or read(n) that would take it past the end leaves it
\* where it was, without a panic and without wrapping, for every u32 n.
C10_CursorClamped ==
    /\ cursor <= ByteLen(input)
    /\ (call.op \in {"move_cursor", "read"} /\ PastEnd(call.before, call.chars))
           => /\ result.kind # "abort"
              /\ cursor = call.before

\* The line and column of character offset p of the text.
LocationOf(p) == LocationAfter(SubSeq(input, 1, p), 1, 1)

\* The character offset that follows the last character of token i in the
\* text: a one-character token and Equals end one past their dispatch, a
\* StringLiteral one past its closing quote, the others where the cursor
\* stood when they were added.
TokenEnd(i) ==
    CASE tokens[i].ty \in {"Comma", "Lparen", "Rparen", "Lbrace", "Rbrace",
                           "Not", "Equals"}
           -> spans[i].from + 1
      [] tokens[i].ty = "StringLiteral" -> spans[i].to + 1
      [] OTHER -> spans[i].to

\* C11: the location of every token, of every kind, is the location of
\* the cursor just after the token's last character was consumed.
C11_LocationAfterToken ==
    \A i \in 1..Len(tokens) : tokens[i].location = LocationOf(TokenEnd(i))

\* C11 for the kinds added after their characters were consumed.
C11_OnConsumedKinds ==
    \A i \in 1..Len(tokens) :
        tokens[i].ty \in IdentifierKinds \cup {"IntLiteral", "Eol", "EolDebug"}
            => tokens[i].location = LocationOf(TokenEnd(i))

\* Whether the text holds ASCII characters only.
AsciiText == \A i \in 1..Len(input) : Utf8Len(input[i]) = 1

\* The character offsets at which the match was dispatched.
DispatchedAt == {dispatched[k] : k \in 1..Len(dispatched)}

\* Whether the read(1) that ends the loop body is still to run for the
\* token i, the last one added.
AdvancePending(i) ==
    i = Len(tokens) /\ pc = "advance" /\ LastDispatch = spans[i].from

\* C13: the character that follows the last digit of an integer literal
\* (when there is one) is consumed by the read(1) that ends the loop body
\* and is never dispatched, so it adds no token: `12,` gives IntLiteral(12)
\* and no Comma, and a '!' or '?' after a digit is no marker.
C13_CharAfterIntegerDropped ==
    \A i \in 1..Len(tokens) :
        (tokens[i].ty = "IntLiteral" /\ spans[i].to < Len(input)) =>
            /\ spans[i].to \notin DispatchedAt
            /\ TokensFrom(spans[i].to) = {}
            /\ ~AdvancePending(i) => cursor > spans[i].to
            /\ (pc = "done" /\ CharAt(spans[i].to) \in {"!", "?"}
                    /\ spans[i].to + 1 = Len(input))
                   => result.kind = "UnterminatedLine"

\* C13 on the texts that hold ASCII characters only.
C13_OnAsciiText == AsciiText => C13_CharAfterIntegerDropped

Measure ==
    100 * (ByteLen(input) - cursor)
        + CASE pc = "done" -> 0
            [] pc = "check" -> 1
            [] pc = "loop" ->
                   IF HasRemainingInput(input, cursor) THEN 50 ELSE 2
            [] pc = "advance" -> 3
            [] pc \in {"string_body", "strict_loop"} -> 10
            [] pc = "ident" -> 20
            [] pc = "number" -> 22
            [] pc = "ident_loop" -> 110
            [] pc = "skip" -> 40
            [] pc = "peek" -> 30
            [] OTHER -> 25

\* C12: lex ends on every text and returns a result, Ok or a LexError:
\* when it has ended, what it leaves is a result.
C12_ReturnsResult ==
    pc = "done" => result.kind \in {"Ok", "UnterminatedString",
                                    "UnterminatedLine", "DeadCode"}

\* C12, the part that holds: every step lowers the measure, a turn of an
\* inner loop moves the cursor on by one, and a turn of the scan loop ends
\* with the cursor past the character it dispatched on; so lex ends.
C12_LoopsAdvance ==
    [][/\ Measure' < Measure
       /\ Measure' >= 0
       /\ (pc' = pc /\ pc \in {"string_body", "strict_loop", "number",
                                "ident_loop"})
           => cursor' = cursor + 1
       /\ (pc = "advance" /\ pc' = "loop") => cursor' > LastDispatch]_vars

\* The dispatches on a plain space: skip_whitespace(u32::MAX, true) eats
\* every other whitespace character before the dispatch.
SpaceDispatches == {k \in 1..Len(dispatched) : CharAt(dispatched[k]) = " "}

\* C15: when exactly one plain space is left, skip_whitespace with
\* preserve_single set leaves the cursor where it is, and that space is
\* not consumed before the termination check runs: the cursor is still
\* before the space when the check is evaluated.
C15_TrailingSpaceKept ==
    /\ (/\ pc = "skip"
        /\ RemainingLength(input, cursor) = 1
        /\ Peek(input, cursor) = " ")
           => SkipWhitespace(input, cursor, U32Max, TRUE,
                             overflow_checks).cursor = cursor
    /\ \A k \in SpaceDispatches :
           /\ dispatched[k] = Len(input) - 1
           /\ pc \in {"check", "done"} => cursor = dispatched[k]

\* C15, the part that holds: the space that is kept is the last character
\* of the text, it is dispatched and adds no token, and the read(1) that
\* ends the loop body consumes it, so the check runs at the end of the
\* text.
C15_TrailingSpaceDispatched ==
    \A k \in SpaceDispatches :
        /\ dispatched[k] = Len(input) - 1
        /\ TokensFrom(dispatched[k]) = {}
        /\ pc \in {"loop", "check", "done"} =>
               /\ cursor = Len(input)
               /\ pc # "loop" => left = "exhausted"

\* The StringLiteral tokens.
StringTokens == {i \in 1..Len(tokens) : tokens[i].ty = "StringLiteral"}

\* C16: the text of a StringLiteral is the characters strictly between the
\* opening quote and the next quote, the closing quote is consumed once,
\* and the scan resumes at the character right after it: `"a""b"` gives
\* the StringLiterals a and b, `"a"!` gives StringLiteral, Eol.
C16_StringLiteralText ==
    /\ \A i \in StringTokens :
           LET from == spans[i].from
               to == spans[i].to
           IN  /\ from < to
               /\ CharAt(from) = "\""
               /\ CharAt(to) = "\""
               /\ \A j \in (from + 1)..(to - 1) : CharAt(j) # "\""
               /\ tokens[i].value = SubSeq(input, from + 2, to)
               /\ to \notin DispatchedAt
               /\ IF AdvancePending(i) THEN cursor = to ELSE cursor > to
               /\ (i = Len(tokens) /\ pc = "loop" /\ LastDispatch = from)
                      => cursor = to + 1
               /\ \A k \in 1..(Len(dispatched) - 1) :
                      dispatched[k] = from =>
                          /\ dispatched[k + 1] > to
                          /\ \A j \in (to + 1)..(dispatched[k + 1] - 1) :
                                 IsWhitespace(CharAt(j))
    /\ (pc = "done" /\ input = <<"\"", "a", "\"", "\"", "b", "\"">>) =>
           /\ Kinds = <<"StringLiteral", "StringLiteral">>
           /\ tokens[1].value = <<"a">>
           /\ tokens[2].value = <<"b">>
    /\ (pc = "done" /\ input = <<"\"", "a", "\"", "!">>) =>
           /\ result.kind = "Ok"
           /\ Kinds = <<"StringLiteral", "Eol">>
           /\ tokens[1].value = <<"a">>

C16_Witness ==
    /\ pc = "done"
    /\ input = <<"\"", "a", "\"", "\"", "b", "\"", "!">>
    /\ result.kind = "Ok"
    /\ Kinds = <<"StringLiteral", "StringLiteral", "Eol">>
    /\ tokens[1].value = <<"a">>
    /\ tokens[2].value = <<"b">>
    /\ dispatched = <<0, 3, 6>>

\* A character the match of lex has no arm for and that is neither a
\* digit nor alphabetic.
OtherChar(c) ==
    /\ c \notin {" ", "\"", ",", "!", "?", "(", ")", "{", "}", ";", "="}
    /\ ~IsNumeric(c)
    /\ ~IsAlphabetic(c)

\* C17: a dispatched character that is no listed punctuation, no digit and
\* not alphabetic adds no token and is skipped by exactly one position; a
\* text made only of whitespace and such characters, the empty text
\* included, is accepted with no token and no error.
C17_OtherCharSkipped ==
    /\ \A k \in 1..Len(dispatched) :
           OtherChar(CharAt(dispatched[k])) =>
               /\ TokensFrom(dispatched[k]) = {}
               /\ (k < Len(dispatched) \/ pc \notin {"peek", "other",
                                                     "advance"})
                      => cursor > dispatched[k]
               /\ (k = Len(dispatched) /\ pc = "loop")
                      => cursor = dispatched[k] + 1
    /\ (/\ pc = "done"
        /\ \A j \in 1..Len(input) :
               IsWhitespace(input[j]) \/ OtherChar(input[j]))
           => result.kind = "Ok" /\ tokens = <<>>

\* C17 holds on the texts without a non-ASCII character.
C17_OnAsciiText == AsciiText => C17_OtherCharSkipped

\* The newlines among the first p characters of the text.
NewlinesBefore(p) == {j \in 1..p : input[j] = "\n"}

\* The place of the last newline among the first p characters, 0 if none.
LastNewlineBefore(p) ==
    IF NewlinesBefore(p) = {} THEN 0
    ELSE CHOOSE j \in NewlinesBefore(p) : \A l \in NewlinesBefore(p) : l <= j

\* The offset of the first character after the marker at offset m and the
\* whitespace that follows it.
AfterMarker(m) == Len(input) - Len(StripWhitespace(TextAfter(m)))

\* C18: a DeadCode error, from either marker branch, carries the line and
\* column of the first offending character, on which the cursor is put
\* back: line 1 + the newlines before it, column 1 + the characters
\* between the preceding newline (or the start of the text) and it.
C18_DeadCodeAtOffender ==
    result.kind = "DeadCode" =>
        /\ cursor < Len(input)
        /\ result.location =
               [line |-> 1 + Cardinality(NewlinesBefore(cursor)),
                col |-> 1 + (cursor - LastNewlineBefore(cursor))]
        /\ CharAt(LastDispatch) \in {"!", "?"}
        /\ AfterMarker(LastDispatch) <= cursor
        /\ CharAt(LastDispatch) = "?" => AfterMarker(LastDispatch) = cursor
        /\ \A j \in AfterMarker(LastDispatch)..(cursor - 1) :
               CharAt(j) \in {"!", "\n"}
        /\ CharAt(cursor) # "\n"
        /\ CharAt(LastDispatch) = "!" => CharAt(cursor) # "!"

C18_Witness ==
    /\ result.kind = "DeadCode"
    /\ input = <<"!", "\n", "x">>
    /\ cursor = 2
    /\ result.location = [line |-> 2, col |-> 1]

\* The end-of-line markers among the tokens.
Terminators == {i \in 1..Len(tokens) : IsTerminator(tokens[i])}

\* C19: once an Eol or EolDebug token is emitted no further token is
\* emitted and the scan loop is not entered again; an Ok result has at
\* most one such token, and it is the last one.
C19_MarkerEndsScan ==
    /\ \A i \in Terminators :
           /\ i = Len(tokens)
           /\ pc \in {"check", "done"}
           /\ left = "marker"
           /\ LastDispatch = spans[i].from
    /\ result.kind = "Ok" => Cardinality(Terminators) <= 1

C19_Witness ==
    /\ result.kind = "Ok"
    /\ input = <<",", "!", "!">>
    /\ Kinds = <<"Comma", "Eol">>
    /\ LastToken.value = <<"!", "!">>
    /\ left = "marker"

\* Location a is not after location b, by line and then by column.
NotAfter(a, b) == a.line < b.line \/ (a.line = b.line /\ a.col <= b.col)

\* C20: at every point of the scan and in every Ok result, the locations
\* of the tokens do not decrease along the sequence, by line and then by
\* column, though lex_identifier steps the cursor back after its token.
C20_LocationsOrdered ==
    \A i \in 1..(Len(tokens) - 1) :
        NotAfter(tokens[i].location, tokens[i + 1].location)

C20_Witness ==
    /\ input = <<"x", "\n", ",">>
    /\ Kinds = <<"Identifier", "Comma">>
    /\ tokens[1].location = [line |-> 1, col |-> 2]
    /\ tokens[2].location = [line |-> 2, col |-> 1]

====
